---------------------------- MODULE Spec2Model ----------------------------
(*
 * Scalars modulo the order n of Curve9767 (src/src/scalar_ref.c).
 *
 * A scalar is the array w16[18] of the curve9767_scalar union: 17 limbs of
 * 15 bits (little-endian) followed by the alignment word w16[17].  It is
 * held here as a sequence of 18 naturals; C index i is TLA+ index i + 1.
 *
 * A uint32_t word u is held as the integer with the same 32-bit pattern
 * (u itself below 2^31, u - 2^32 when bit 31 is set), since the model
 * checker's integers are 32 bits wide.  With floor division and a
 * nonnegative remainder the C operators become:
 *     u & 0x7FFF   ->  u % 32768
 *     u >> 31      ->  1 if u < 0, else 0
 *     -u           ->  -u
 * Sums and differences are computed exactly; the checker stops with an
 * error if one leaves the 32-bit range.
 *)
EXTENDS Integers, Sequences, FiniteSets, TLC

VARIABLES regs, buf, res, steps

vars == <<regs, buf, res, steps>>

-----------------------------------------------------------------------------
(* 32-bit word operators *)

And7FFF(w) == w % 32768

Shr31(w) == IF w < 0 THEN 1 ELSE 0

Shr15(w) == IF w < 0 THEN (w \div 32768) + 131072 ELSE w \div 32768

RECURSIVE And32(_, _)
And32(x, y) ==
    IF x = 0 \/ y = 0 THEN 0
    ELSE IF x = -1 THEN y
    ELSE IF y = -1 THEN x
    ELSE (x % 2) * (y % 2) + 2 * And32(x \div 2, y \div 2)

RECURSIVE Xor32(_, _)
Xor32(x, y) ==
    IF x = 0 THEN y
    ELSE IF y = 0 THEN x
    ELSE IF x = -1 /\ y = -1 THEN 0
    ELSE (((x % 2) + (y % 2)) % 2) + 2 * Xor32(x \div 2, y \div 2)

RECURSIVE Or32(_, _)
Or32(x, y) ==
    IF x = 0 THEN y
    ELSE IF y = 0 THEN x
    ELSE IF x = -1 \/ y = -1 THEN -1
    ELSE (IF x % 2 = 1 \/ y % 2 = 1 THEN 1 ELSE 0) + 2 * Or32(x \div 2, y \div 2)

(* The product t * k of a word 0 <= t < 2^31 by 0 <= k < 2^15, as uint32_t
   arithmetic gives it: the low 32 bits, and whether bits were lost. *)
Mul32(t, k) ==
    LET lo == (t % 65536) * k
        hi == (t \div 65536) * k + (lo \div 65536)
        h16 == hi % 65536
    IN  [ val  |-> (IF h16 >= 32768 THEN h16 - 65536 ELSE h16) * 65536
                     + (lo % 65536),
          wrap |-> hi >= 65536 ]

-----------------------------------------------------------------------------
(* Constants of the source *)

order ==
    << 24177, 19022, 18073, 22927, 18879, 12156,  7504, 10559, 11571,
       26856, 15192, 22896, 14840, 31722,  2974,  9600,  3616 >>

sR2 ==
    << 14755,  1449,  7175,  1324, 11384, 15866, 31249, 13920, 17944,
        6728,  3858,  5900, 25302,   432,  5554, 29779,  1646 >>

sD ==
    <<   167,  1579, 26634, 10886, 24646, 12845, 32322,  7660,  8304,
       12054, 20731,  3487, 26407,  9107, 22337,  7191,  1284 >>

N0 == 24177

N0I == 23919

curve9767_scalar_zero == << 0, 0, 0, 0, 0, 0, 0, 0, 0, 0, 0, 0, 0, 0, 0, 0, 0, 0 >>

curve9767_scalar_one == << 1, 0, 0, 0, 0, 0, 0, 0, 0, 0, 0, 0, 0, 0, 0, 0, 0, 0 >>

(* The 17 limbs of a scalar, and a scalar from 17 limbs with w16[17] = 0. *)
Limbs(s) == SubSeq(s, 1, 17)

Scalar(l) == Append(l, 0)

-----------------------------------------------------------------------------
(* Loops of the source are recursive operators over the record st of the
   loop's variables. *)

(* scalar_add *)

RECURSIVE add_sum(_, _, _)
add_sum(a, b, st) ==
    IF st.i < 17
    THEN LET w == a[st.i + 1] + b[st.i + 1] + st.cc
         IN  add_sum(a, b, [i |-> st.i + 1, d |-> Append(st.d, And7FFF(w)),
                            cc |-> Shr15(w)])
    ELSE st

RECURSIVE sub_masked(_, _, _)
sub_masked(d, m, st) ==
    IF st.i < 17
    THEN LET wd == d[st.i + 1] - And32(m, order[st.i + 1]) - st.cc
         IN  sub_masked(d, m, [i |-> st.i + 1, d |-> Append(st.d, And7FFF(wd)),
                               cc |-> Shr31(wd)])
    ELSE st

(* Mutant of add_mask: the top limb is shifted by 13, not 12. *)
add_mask_13(d) == -Shr31(-(d[17] \div 8192))

add_mask(d) == -Shr31(-(d[17] \div 4096))

add_condsub(d) == sub_masked(d, add_mask(d), [i |-> 0, d |-> <<>>, cc |-> 0])

(* Mutant of add_run: the conditional subtraction is made once, not twice. *)
add_run_once(a, b) ==
    LET s0 == add_sum(a, b, [i |-> 0, d |-> <<>>, cc |-> 0])
        s1 == add_condsub(s0.d)
    IN  [d |-> s1.d, sum |-> s0, sub1 |-> s1, sub2 |-> s1]

add_run(a, b) ==
    LET s0 == add_sum(a, b, [i |-> 0, d |-> <<>>, cc |-> 0])
        s1 == add_condsub(s0.d)
        s2 == add_condsub(s1.d)
    IN  [d |-> s2.d, sum |-> s0, sub1 |-> s1, sub2 |-> s2]

scalar_add(a, b) == add_run(a, b).d

-----------------------------------------------------------------------------
(* scalar_sub *)

RECURSIVE sub_diff(_, _, _)
sub_diff(a, b, st) ==
    IF st.i < 17
    THEN LET w == a[st.i + 1] - b[st.i + 1] - st.cc
         IN  sub_diff(a, b, [i |-> st.i + 1, d |-> Append(st.d, And7FFF(w)),
                             cc |-> Shr31(w)])
    ELSE st

RECURSIVE add_masked(_, _, _)
add_masked(d, m, st) ==
    IF st.i < 17
    THEN LET wd == d[st.i + 1] + And32(m, order[st.i + 1]) + st.cc
         IN  add_masked(d, m, [i |-> st.i + 1, d |-> Append(st.d, And7FFF(wd)),
                               cc |-> Shr15(wd)])
    ELSE st

sub_mask(d) == -(d[17] \div 16384)

sub_condadd(d) == add_masked(d, sub_mask(d), [i |-> 0, d |-> <<>>, cc |-> 0])

scalar_sub(a, b) ==
    sub_condadd(sub_condadd(sub_diff(a, b, [i |-> 0, d |-> <<>>, cc |-> 0]).d).d).d

-----------------------------------------------------------------------------
(* scalar_normalize: c is the array written, r the value returned. *)

RECURSIVE norm_select(_, _, _, _)
norm_select(a, d, cc, st) ==
    IF st.i < 17
    THEN LET wa == a[st.i + 1]
             wd == d[st.i + 1]
         IN  norm_select(a, d, cc,
                 [i |-> st.i + 1,
                  c |-> Append(st.c, Xor32(wd, And32(cc, Xor32(wa, wd))) % 65536)])
    ELSE st

norm_borrow(a) == sub_diff(a, order, [i |-> 0, d |-> <<>>, cc |-> 0])

(* Mutant of norm_return: the complement of the borrow is returned. *)
norm_return_not(cc) == 1 + cc

norm_return(cc) == -cc

scalar_normalize(a) ==
    LET s  == norm_borrow(a)
        cc == -s.cc
    IN  [c |-> norm_select(a, s.d, cc, [i |-> 0, c |-> <<>>]).c,
         r |-> norm_return(cc)]

-----------------------------------------------------------------------------
(* scalar_mmul.  log keeps, for each outer iteration, t, g, the low limb of
   t + g*N0, whether the product t * N0I lost bits beyond 32, the largest
   carry cc of the iteration and dh at its end. *)

RECURSIVE mmul_inner(_, _, _, _, _)
mmul_inner(d, f, g, b, st) ==
    IF st.j < 17
    THEN LET h  == d[st.j + 1] + f * b[st.j + 1] + g * order[st.j + 1] + st.cc
             cc == Shr15(h)
         IN  mmul_inner(d, f, g, b,
                 [j |-> st.j + 1, d |-> Append(st.d, And7FFF(h)), cc |-> cc,
                  ccmax |-> IF cc > st.ccmax THEN cc ELSE st.ccmax])
    ELSE st

(* Mutant of mmul_digit: the digit is taken with N0 in place of N0I. *)
mmul_digit_N0(t) == And7FFF(Mul32(t, N0).val)

mmul_digit(t) == And7FFF(Mul32(t, N0I).val)

RECURSIVE mmul_outer(_, _, _)
mmul_outer(a, b, st) ==
    IF st.i < 17
    THEN LET f   == a[st.i + 1]
             t   == st.d[1] + f * b[1]
             g   == mmul_digit(t)
             u   == t + g * N0
             in  == mmul_inner(st.d, f, g, b,
                               [j |-> 1, d |-> <<>>, cc |-> Shr15(u), ccmax |-> Shr15(u)])
             dh2 == st.dh + in.cc
         IN  mmul_outer(a, b,
                 [i |-> st.i + 1, d |-> Append(in.d, And7FFF(dh2)), dh |-> Shr15(dh2),
                  log |-> Append(st.log, [t |-> t, g |-> g, low |-> And7FFF(u),
                                          wrap |-> Mul32(t, N0I).wrap,
                                          ccmax |-> in.ccmax, dh |-> Shr15(dh2)])])
    ELSE st

zero17 == << 0, 0, 0, 0, 0, 0, 0, 0, 0, 0, 0, 0, 0, 0, 0, 0, 0 >>

mmul_run(a, b) == mmul_outer(a, b, [i |-> 0, d |-> zero17, dh |-> 0, log |-> <<>>])

scalar_mmul(a, b) == mmul_run(a, b).d

-----------------------------------------------------------------------------
(* scalar_decode_trunc: c is the destination array, src the bytes from the
   pointer on (src[u + 1] is buf[u]), len the length passed. *)

RECURSIVE trunc_fill(_)
trunc_fill(st) ==
    IF st.i < 17 THEN trunc_fill([i |-> st.i + 1, c |-> [st.c EXCEPT ![st.i + 1] = 0]])
    ELSE st.c

RECURSIVE trunc_loop(_, _, _)
trunc_loop(src, len, st) ==
    IF st.u < len
    THEN IF st.u = 31
         THEN [st.c EXCEPT ![17] = Or32(st.acc, And32(src[32], 15) * 256) % 65536]
         ELSE LET acc2 == Or32(st.acc, src[st.u + 1] * (2 ^ st.acc_len))
                  len2 == st.acc_len + 8
              IN  IF len2 >= 15
                  THEN trunc_loop(src, len,
                           [u |-> st.u + 1, i |-> st.i + 1,
                            c |-> [st.c EXCEPT ![st.i + 1] = And7FFF(acc2)],
                            acc |-> Shr15(acc2), acc_len |-> len2 - 15])
                  ELSE trunc_loop(src, len,
                           [u |-> st.u + 1, i |-> st.i, c |-> st.c,
                            acc |-> acc2, acc_len |-> len2])
    ELSE IF st.acc_len > 0
         THEN trunc_fill([i |-> st.i + 1, c |-> [st.c EXCEPT ![st.i + 1] = st.acc % 65536]])
         ELSE trunc_fill([i |-> st.i, c |-> st.c])

scalar_decode_trunc(c, src, len) ==
    trunc_loop(src, len, [u |-> 0, i |-> 0, c |-> c, acc |-> 0, acc_len |-> 0])

-----------------------------------------------------------------------------
(* curve9767_scalar_decode_strict: s is the scalar written, r the value
   returned. *)

RECURSIVE strict_tail(_, _, _)
strict_tail(src, len, st) ==
    IF st.u < len
    THEN strict_tail(src, len, [u |-> st.u + 1, r |-> Or32(st.r, src[st.u + 1])])
    ELSE st.r

(* Mutant of strict_check: the zero test is off by one. *)
strict_check_off(r) == Shr31(r - 2)

strict_check(r) == Shr31(r - 1)

curve9767_scalar_decode_strict(s, src, len) ==
    LET c == scalar_decode_trunc(Limbs(s), src, len)
    IN  IF len >= 32
        THEN LET r0 == strict_tail(src, len, [u |-> 32, r |-> src[32] \div 16])
                 nz == scalar_normalize(c)
             IN  [s |-> Scalar(nz.c), r |-> And32(strict_check(r0), nz.r)]
        ELSE [s |-> Scalar(c), r |-> 1]

-----------------------------------------------------------------------------
(* curve9767_scalar_decode_reduce.  accs keeps the accumulator s after the
   leading chunk and after each iteration of the while loop, lead the length
   of the leading chunk. *)

RECURSIVE reduce_lead(_, _)
reduce_lead(u, len) == IF u + 31 < len THEN reduce_lead(u + 31, len) ELSE u

(* Mutant of reduce_step: the accumulator is multiplied by sR2, not sD. *)
reduce_step_sR2(s, t) == scalar_add(scalar_mmul(s, sR2), t)

reduce_step(s, t) == scalar_add(scalar_mmul(s, sD), t)

RECURSIVE reduce_loop(_, _)
reduce_loop(src, st) ==
    IF st.u > 0
    THEN LET u2 == st.u - 31
             t  == scalar_decode_trunc(zero17, SubSeq(src, u2 + 1, Len(src)), 31)
             s2 == reduce_step(st.s, t)
         IN  reduce_loop(src, [u |-> u2, s |-> s2, accs |-> Append(st.accs, s2)])
    ELSE st

reduce_run(s, src, len) ==
    IF len <= 31
    THEN [s |-> scalar_decode_trunc(Limbs(s), src, len), accs |-> <<>>, lead |-> len]
    ELSE LET u  == reduce_lead(0, len)
             s0 == scalar_decode_trunc(Limbs(s), SubSeq(src, u + 1, Len(src)), len - u)
             lp == reduce_loop(src, [u |-> u, s |-> s0, accs |-> <<s0>>])
         IN  [s |-> lp.s, accs |-> lp.accs, lead |-> len - u]

curve9767_scalar_decode_reduce(s, src, len) == Scalar(reduce_run(s, src, len).s)

-----------------------------------------------------------------------------
(* curve9767_scalar_encode: dst is the 32-byte destination buffer. *)

zero32 ==
    << 0, 0, 0, 0, 0, 0, 0, 0, 0, 0, 0, 0, 0, 0, 0, 0,
       0, 0, 0, 0, 0, 0, 0, 0, 0, 0, 0, 0, 0, 0, 0, 0 >>

RECURSIVE encode_flush(_)
(* Mutant of encode_flush: the accumulator is shifted by 7 bits, not 8. *)
encode_flush_shift7(st) ==
    IF st.acc_len >= 8
    THEN encode_flush([dst |-> [st.dst EXCEPT ![st.u + 1] = st.acc % 256],
                       u |-> st.u + 1, acc |-> st.acc \div 128,
                       acc_len |-> st.acc_len - 8])
    ELSE st

encode_flush(st) ==
    IF st.acc_len >= 8
    THEN encode_flush([dst |-> [st.dst EXCEPT ![st.u + 1] = st.acc % 256],
                       u |-> st.u + 1, acc |-> st.acc \div 256,
                       acc_len |-> st.acc_len - 8])
    ELSE st

RECURSIVE encode_loop(_, _, _)
encode_loop(t, i, st) ==
    IF i < 17
    THEN encode_loop(t, i + 1,
             encode_flush([dst |-> st.dst, u |-> st.u,
                           acc |-> Or32(st.acc, t[i + 1] * (2 ^ st.acc_len)),
                           acc_len |-> st.acc_len + 15]))
    ELSE [st.dst EXCEPT ![32] = st.acc % 256]

curve9767_scalar_encode(dst, s) ==
    encode_loop(scalar_normalize(Limbs(s)).c, 0,
                [dst |-> dst, u |-> 0, acc |-> 0, acc_len |-> 0])

-----------------------------------------------------------------------------
(* curve9767_scalar_is_zero, curve9767_scalar_eq *)

RECURSIVE is_zero_or(_, _)
is_zero_or(t, st) ==
    IF st.i < 17 THEN is_zero_or(t, [i |-> st.i + 1, r |-> Or32(st.r, t[st.i + 1])])
    ELSE st.r

curve9767_scalar_is_zero(s) ==
    1 - Shr31(-is_zero_or(scalar_normalize(Limbs(s)).c, [i |-> 0, r |-> 0]))

curve9767_scalar_sub(a, b) == Scalar(scalar_sub(Limbs(a), Limbs(b)))

(* Mutant of curve9767_scalar_eq: the representations are compared. *)
curve9767_scalar_eq_raw(a, b) == IF a = b THEN 1 ELSE 0

curve9767_scalar_eq(a, b) == curve9767_scalar_is_zero(curve9767_scalar_sub(a, b))

-----------------------------------------------------------------------------
(* curve9767_scalar_add, curve9767_scalar_neg, curve9767_scalar_mul *)

curve9767_scalar_add(a, b) == Scalar(scalar_add(Limbs(a), Limbs(b)))

curve9767_scalar_neg(a) == Scalar(scalar_sub(Limbs(curve9767_scalar_zero), Limbs(a)))

curve9767_scalar_mul(a, b) ==
    Scalar(scalar_mmul(scalar_mmul(Limbs(a), sR2), Limbs(b)))

-----------------------------------------------------------------------------
(* curve9767_scalar_condcopy.  w32[i] overlays w16[2i] and w16[2i + 1]; the
   bitwise operators act on the two halves alike, so the byte order of the
   target does not change the w16 result.  The low half is taken first. *)

W32(s, i) ==
    LET hi == s[2 * i + 2]
    IN  s[2 * i + 1] + (IF hi >= 32768 THEN hi - 65536 ELSE hi) * 65536

RECURSIVE condcopy_loop(_, _, _)
condcopy_loop(s, ctl, st) ==
    IF st.i < 9
    THEN LET w == Xor32(W32(st.d, st.i), And32(ctl, Xor32(W32(st.d, st.i), W32(s, st.i))))
         IN  condcopy_loop(s, ctl,
                 [i |-> st.i + 1,
                  d |-> [st.d EXCEPT ![2 * st.i + 1] = w % 65536,
                                     ![2 * st.i + 2] = (w \div 65536) % 65536]])
    ELSE st.d

curve9767_scalar_condcopy(d, s, ctl) == condcopy_loop(s, -ctl, [i |-> 0, d |-> d])

-----------------------------------------------------------------------------
(* The state: three scalars regs.a, regs.b, regs.c of the caller, the
   caller's byte buffer buf, the record res of the last call (its name, the
   scalars passed, the control word, the scalar written, the value
   returned) and the number of calls made. *)

Regs == {"a", "b", "c"}

NoCall == [op |-> "none", x |-> curve9767_scalar_zero, y |-> curve9767_scalar_zero,
           ctl |-> 0, out |-> curve9767_scalar_zero, r |-> 0]

Add(c, a, b) ==
    /\ regs' = [regs EXCEPT ![c] = curve9767_scalar_add(regs[a], regs[b])]
    /\ res' = [op |-> "add", x |-> regs[a], y |-> regs[b], ctl |-> 0,
               out |-> regs'[c], r |-> 0]
    /\ UNCHANGED buf

Sub(c, a, b) ==
    /\ regs' = [regs EXCEPT ![c] = curve9767_scalar_sub(regs[a], regs[b])]
    /\ res' = [op |-> "sub", x |-> regs[a], y |-> regs[b], ctl |-> 0,
               out |-> regs'[c], r |-> 0]
    /\ UNCHANGED buf

Neg(c, a) ==
    /\ regs' = [regs EXCEPT ![c] = curve9767_scalar_neg(regs[a])]
    /\ res' = [op |-> "neg", x |-> regs[a], y |-> curve9767_scalar_zero, ctl |-> 0,
               out |-> regs'[c], r |-> 0]
    /\ UNCHANGED buf

Mul(c, a, b) ==
    /\ regs' = [regs EXCEPT ![c] = curve9767_scalar_mul(regs[a], regs[b])]
    /\ res' = [op |-> "mul", x |-> regs[a], y |-> regs[b], ctl |-> 0,
               out |-> regs'[c], r |-> 0]
    /\ UNCHANGED buf

CondCopy(d, s, ctl) ==
    /\ regs' = [regs EXCEPT ![d] = curve9767_scalar_condcopy(regs[d], regs[s], ctl)]
    /\ res' = [op |-> "condcopy", x |-> regs[d], y |-> regs[s], ctl |-> ctl,
               out |-> regs'[d], r |-> 0]
    /\ UNCHANGED buf

DecodeStrict(s) ==
    LET got == curve9767_scalar_decode_strict(regs[s], buf, Len(buf))
    IN  /\ regs' = [regs EXCEPT ![s] = got.s]
        /\ res' = [op |-> "decode_strict", x |-> regs[s], y |-> curve9767_scalar_zero,
                   ctl |-> 0, out |-> got.s, r |-> got.r]
        /\ UNCHANGED buf

DecodeReduce(s) ==
    /\ regs' = [regs EXCEPT ![s] = curve9767_scalar_decode_reduce(regs[s], buf, Len(buf))]
    /\ res' = [op |-> "decode_reduce", x |-> regs[s], y |-> curve9767_scalar_zero,
               ctl |-> 0, out |-> regs'[s], r |-> 0]
    /\ UNCHANGED buf

Encode(s) ==
    /\ buf' = curve9767_scalar_encode(zero32, regs[s])
    /\ res' = [op |-> "encode", x |-> regs[s], y |-> curve9767_scalar_zero,
               ctl |-> 0, out |-> curve9767_scalar_zero, r |-> 0]
    /\ UNCHANGED regs

IsZero(s) ==
    /\ res' = [op |-> "is_zero", x |-> regs[s], y |-> curve9767_scalar_zero,
               ctl |-> 0, out |-> curve9767_scalar_zero,
               r |-> curve9767_scalar_is_zero(regs[s])]
    /\ UNCHANGED <<regs, buf>>

Eq(a, b) ==
    /\ res' = [op |-> "eq", x |-> regs[a], y |-> regs[b], ctl |-> 0,
               out |-> curve9767_scalar_zero,
               r |-> curve9767_scalar_eq(regs[a], regs[b])]
    /\ UNCHANGED <<regs, buf>>

(* The static functions, called on the caller's scalars. *)

Normalize(c, a) ==
    LET got == scalar_normalize(Limbs(regs[a]))
    IN  /\ regs' = [regs EXCEPT ![c] = Scalar(got.c)]
        /\ res' = [op |-> "normalize", x |-> regs[a], y |-> curve9767_scalar_zero,
                   ctl |-> 0, out |-> Scalar(got.c), r |-> got.r]
        /\ UNCHANGED buf

MMul(c, a, b) ==
    /\ regs' = [regs EXCEPT ![c] = Scalar(scalar_mmul(Limbs(regs[a]), Limbs(regs[b])))]
    /\ res' = [op |-> "mmul", x |-> regs[a], y |-> regs[b], ctl |-> 0,
               out |-> regs'[c], r |-> 0]
    /\ UNCHANGED buf

DecodeTrunc(c) ==
    /\ regs' = [regs EXCEPT ![c] = Scalar(scalar_decode_trunc(Limbs(regs[c]), buf, Len(buf)))]
    /\ res' = [op |-> "decode_trunc", x |-> regs[c], y |-> curve9767_scalar_zero,
               ctl |-> 0, out |-> regs'[c], r |-> 0]
    /\ UNCHANGED buf

-----------------------------------------------------------------------------
(* Reference arithmetic, independent of the code above.  A natural number
   is a sequence of base-2^15 digits of any length, least significant
   first; a digit past the end is 0. *)

Digit(x, i) == IF i <= Len(x) THEN x[i] ELSE 0

MaxOf(m, k) == IF m < k THEN k ELSE m

MinOf(m, k) == IF m < k THEN m ELSE k

RECURSIVE BigLessAt(_, _, _)
BigLessAt(x, y, k) ==
    IF k = 0 THEN FALSE
    ELSE IF Digit(x, k) # Digit(y, k) THEN Digit(x, k) < Digit(y, k)
    ELSE BigLessAt(x, y, k - 1)

BigLess(x, y) == BigLessAt(x, y, MaxOf(Len(x), Len(y)))

BigEqual(x, y) == ~BigLess(x, y) /\ ~BigLess(y, x)

(* x * k + y for 0 <= k <= 2^15 *)
RECURSIVE BigMulAddAt(_, _, _, _, _)
BigMulAddAt(x, k, y, n, st) ==
    IF st.i <= n
    THEN LET w == Digit(x, st.i) * k + Digit(y, st.i) + st.cc
         IN  BigMulAddAt(x, k, y, n, [i |-> st.i + 1, d |-> Append(st.d, w % 32768),
                                      cc |-> w \div 32768])
    ELSE Append(st.d, st.cc)

BigMulAdd(x, k, y) ==
    BigMulAddAt(x, k, y, MaxOf(Len(x), Len(y)), [i |-> 1, d |-> <<>>, cc |-> 0])

BigAdd(x, y) == BigMulAdd(x, 1, y)

(* x - q * y for 0 <= q < 2^15; bw is 0 exactly when the result is not
   negative, and d is then the result. *)
RECURSIVE BigSubMulAt(_, _, _, _, _)
BigSubMulAt(x, q, y, n, st) ==
    IF st.i <= n
    THEN LET w == Digit(x, st.i) - q * Digit(y, st.i) - st.bw
         IN  BigSubMulAt(x, q, y, n, [i |-> st.i + 1, d |-> Append(st.d, w % 32768),
                                      bw |-> -(w \div 32768)])
    ELSE st

BigSubMul(x, q, y) ==
    BigSubMulAt(x, q, y, MaxOf(Len(x), Len(y)), [i |-> 1, d |-> <<>>, bw |-> 0])

BigSub(x, y) == BigSubMul(x, 1, y).d

(* floor(x / k) for 0 < k <= 2^15 *)
RECURSIVE BigDivSmallAt(_, _, _)
BigDivSmallAt(x, k, st) ==
    IF st.i >= 1
    THEN LET cur == st.rem * 32768 + x[st.i]
         IN  BigDivSmallAt(x, k, [i |-> st.i - 1, rem |-> cur % k,
                                  d |-> <<cur \div k>> \o st.d])
    ELSE st.d

BigDivSmall(x, k) == BigDivSmallAt(x, k, [i |-> Len(x), rem |-> 0, d |-> <<>>])

Pad17(x) == [i \in 1..17 |-> Digit(x, i)]

(* x mod n for x < 2^270: take off q*n for a quotient estimate q that never
   exceeds the true quotient, until the estimate is 0; then x < 2n. *)
RECURSIVE RefModAt(_)
RefModAt(x) ==
    LET q == MinOf((Digit(x, 17) + 32768 * Digit(x, 18)) \div (order[17] + 1), 32767)
    IN  IF q = 0
        THEN IF BigLess(x, order) THEN x ELSE BigSub(x, order)
        ELSE RefModAt(BigSubMul(x, q, order).d)

RefMod(x) == Pad17(RefModAt(x))

(* a * b mod n: Horner's rule over the digits of b *)
RECURSIVE RefMulModAt(_, _, _)
RefMulModAt(a, b, st) ==
    IF st.i >= 1
    THEN RefMulModAt(a, b, [i |-> st.i - 1,
                            acc |-> RefMod(BigMulAdd(a, b[st.i], <<0>> \o st.acc))])
    ELSE st.acc

RefMulMod(a, b) == RefMulModAt(RefMod(a), b, [i |-> Len(b), acc |-> <<>>])

(* The little-endian value of a byte string, modulo n *)
RECURSIVE RefBytesModAt(_, _)
RefBytesModAt(bytes, st) ==
    IF st.k >= 1
    THEN RefBytesModAt(bytes, [k |-> st.k - 1,
                               acc |-> RefMod(BigMulAdd(st.acc, 256, <<bytes[st.k]>>))])
    ELSE st.acc

RefBytesMod(bytes) == Pad17(RefBytesModAt(bytes, [k |-> Len(bytes), acc |-> <<>>]))

(* Byte k of a number, and digit i of the little-endian value of a byte
   string (both counted from 0) *)
BigByte(x, k) ==
    LET q == (8 * k) \div 15
        r == (8 * k) % 15
    IN  ((Digit(x, q + 1) + 32768 * Digit(x, q + 2)) \div (2 ^ r)) % 256

BigBytes(x, len) == [k \in 1..len |-> BigByte(x, k - 1)]

BytesDigit(bytes, i) ==
    LET q == (15 * i) \div 8
        r == (15 * i) % 8
    IN  ((Digit(bytes, q + 1) + 256 * Digit(bytes, q + 2) + 65536 * Digit(bytes, q + 3))
            \div (2 ^ r)) % 32768

BytesBig(bytes) == [i \in 1..((8 * Len(bytes)) \div 15 + 1) |-> BytesDigit(bytes, i - 1)]

(* x < (num/den) * n *)
Below(x, num, den) == BigLess(BigMulAdd(x, den, <<>>), BigMulAdd(order, num, <<>>))

(* floor((num/den) * n) *)
FloorOfN(num, den) == Pad17(BigDivSmall(BigMulAdd(order, num, <<>>), den))

Pow252 == [i \in 1..17 |-> IF i = 17 THEN 4096 ELSE 0]

LimbsOK(l) == \A i \in 1..17 : l[i] \in 0..32767

-----------------------------------------------------------------------------
(* Inputs *)

MaxSteps == 2

MaxChunks == 3

one17 == Limbs(curve9767_scalar_one)

(* 17 limbs of 15 one bits below a top limb *)
AllOnes(top) == [i \in 1..17 |-> IF i = 17 THEN top ELSE 32767]

SampleLimbs ==
    { zero17, one17, BigSub(order, one17), order, Pad17(BigAdd(order, one17)),
      AllOnes(4095), Pow252, FloorOfN(127, 100), FloorOfN(156, 100),
      BigSub(Pad17(BigAdd(order, order)), one17), sR2, sD, AllOnes(3615),
      AllOnes(4591) }

SampleScalars == { Scalar(l) : l \in SampleLimbs }

Fill(kind, len) ==
    [i \in 1..len |-> CASE kind = 0 -> 0
                        [] kind = 1 -> 255
                        [] OTHER    -> (7 + 37 * i) % 256]

SampleLens ==
    {0, 1, 15, 30} \cup { 31 * k + r : k \in 1..MaxChunks, r \in {0, 1} }

EdgeBytes ==
    { BigBytes(l, 32) : l \in { BigSub(order, one17), order,
                                Pad17(BigAdd(order, one17)), AllOnes(4095) } }

SampleInputs ==
    { Fill(kind, len) : kind \in 0..2, len \in SampleLens }
    \cup EdgeBytes
    \cup { [e EXCEPT ![32] = e[32] + 16] : e \in EdgeBytes }
    \cup { Append(e, t) : e \in EdgeBytes, t \in {0, 1} }
    \cup { e \o Fill(0, 31) : e \in EdgeBytes }

ChainInputs == { Fill(2, 63), BigBytes(BigSub(order, one17), 32) }

(* Scalars that earlier calls have produced: n-1 as decoded by
   curve9767_scalar_decode_strict, and 2^252-1 as curve9767_scalar_add leaves
   the sum of n-1 and 2^252-n. *)
Decoded(x) ==
    curve9767_scalar_decode_strict(curve9767_scalar_zero, BigBytes(x, 32), 32).s

ChainScalars ==
    { Decoded(BigSub(order, one17)),
      curve9767_scalar_add(Decoded(BigSub(order, one17)),
                           Decoded(BigSub(Pow252, order))) }

-----------------------------------------------------------------------------
(* Spec: the public operations chained on the caller's scalars, starting
   from curve9767_scalar_zero, curve9767_scalar_one and a scalar produced
   earlier. *)

Init ==
    /\ \E c \in ChainScalars :
          regs = [a |-> curve9767_scalar_zero, b |-> curve9767_scalar_one,
                  c |-> c]
    /\ buf \in ChainInputs
    /\ res = NoCall
    /\ steps = 0

Tick == steps < MaxSteps /\ steps' = steps + 1

Next ==
    \/ \E a, b \in Regs : Tick /\ Add("c", a, b)
    \/ \E a, b \in Regs : Tick /\ Sub("c", a, b)
    \/ \E a \in Regs : Tick /\ Neg("c", a)
    \/ \E a, b \in Regs : Tick /\ Mul("c", a, b)
    \/ \E d, s \in Regs, ctl \in {0, 1} : Tick /\ d # s /\ CondCopy(d, s, ctl)
    \/ Tick /\ DecodeStrict("c")
    \/ Tick /\ DecodeReduce("c")

Spec == Init /\ [][Next]_vars

-----------------------------------------------------------------------------
(* SpecFn: each function applied once to inputs drawn from the samples, and
   decode_strict applied to what encode wrote. *)

InitFn ==
    /\ \/ /\ regs \in [Regs -> SampleScalars]
          /\ regs.c = curve9767_scalar_zero
          /\ buf = <<>>
       \/ /\ regs = [r \in Regs |-> curve9767_scalar_one]
          /\ buf \in SampleInputs
    /\ res = NoCall
    /\ steps = 0

First == steps = 0 /\ steps' = 1

NextFn ==
    \/ First /\ Add("c", "a", "b")
    \/ First /\ Sub("c", "a", "b")
    \/ First /\ Neg("c", "a")
    \/ First /\ Mul("c", "a", "b")
    \/ \E ctl \in {0, 1} : First /\ CondCopy("b", "a", ctl)
    \/ First /\ DecodeStrict("c")
    \/ First /\ DecodeReduce("c")
    \/ First /\ Encode("a")
    \/ First /\ IsZero("a")
    \/ First /\ Eq("a", "b")
    \/ First /\ Normalize("c", "a")
    \/ First /\ MMul("c", "a", "b")
    \/ First /\ DecodeTrunc("c")
    \/ steps = 1 /\ res.op = "encode" /\ steps' = 2 /\ DecodeStrict("c")

SpecFn == InitFn /\ [][NextFn]_vars

-----------------------------------------------------------------------------
(* Claims.  X and Y are the limbs of the scalars passed to the last call, Out
   the limbs of the scalar it wrote. *)

X == Limbs(res.x)

Y == Limbs(res.y)

Out == Limbs(res.out)

(* The value of the first 252 bits of a byte string of at least 32 bytes *)
Trunc252(bytes) == BytesBig([k \in 1..32 |-> IF k < 32 THEN bytes[k] ELSE bytes[32] % 16])

HighBitsZero(bytes) ==
    /\ bytes[32] \div 16 = 0
    /\ \A u \in 33..Len(bytes) : bytes[u] = 0

(* C1: curve9767_scalar_decode_strict returns 1 exactly when the
   little-endian value of the whole input is in [0, n-1] and 0 otherwise:
   always 1 for len < 32; for len >= 32, 1 iff the high 4 bits of byte 31 and
   all bytes from index 32 on are zero and the 252-bit truncated value is
   below n (the encodings of n, n+1 and 2^252-1 are rejected, those of 0 and
   n-1 accepted).  When it returns 1, s holds the canonical limbs of the
   value. *)
C1_DecodeStrict ==
    res.op = "decode_strict" =>
        /\ res.r \in {0, 1}
        /\ res.r = 1 <=> BigLess(BytesBig(buf), order)
        /\ Len(buf) < 32 => res.r = 1
        /\ Len(buf) >= 32 =>
              (res.r = 1 <=> HighBitsZero(buf) /\ BigLess(Trunc252(buf), order))
        /\ buf \in { BigBytes(order, 32), BigBytes(Pad17(BigAdd(order, one17)), 32),
                     BigBytes(AllOnes(4095), 32) } => res.r = 0
        /\ buf \in { BigBytes(zero17, 32), BigBytes(BigSub(order, one17), 32) }
              => res.r = 1
        /\ res.r = 1 =>
              /\ LimbsOK(Out)
              /\ res.out[18] = 0
              /\ BigEqual(Out, BytesBig(buf))
              /\ BigLess(Out, order)

(* C1 witness: an input of 32 bytes or more whose ignored bits are all zero
   is rejected because its value is n or more. *)
C1_Witness ==
    /\ res.op = "decode_strict"
    /\ Len(buf) >= 32
    /\ HighBitsZero(buf)
    /\ res.r = 0

(* C2: for a canonical scalar v in [0, n-1], curve9767_scalar_encode writes
   32 bytes on which curve9767_scalar_decode_strict returns 1 and yields the
   17 limbs of v.  (In SpecFn the second call is the decode_strict of the
   buffer that encode filled from regs.a.) *)
C2_RoundTrip ==
    (steps = 2 /\ res.op = "decode_strict" /\ BigLess(Limbs(regs.a), order)) =>
        /\ Len(buf) = 32
        /\ res.r = 1
        /\ Out = Limbs(regs.a)

(* C2 witness: n-1 has been encoded and decoded back. *)
C2_Witness ==
    /\ steps = 2
    /\ res.op = "decode_strict"
    /\ Limbs(regs.a) = BigSub(order, one17)
    /\ regs.c = regs.a

(* C3: for a byte string of any length, curve9767_scalar_decode_reduce
   yields a scalar congruent modulo n to the little-endian value of the whole
   string; for len > 31 the leading chunk has 1 to 31 bytes, and after each
   step (scalar_mmul by sD, then scalar_add of the next 31-byte chunk) the
   accumulator is congruent to the value of the bytes consumed so far. *)
C3_DecodeReduce ==
    res.op = "decode_reduce" =>
        LET len == Len(buf)
            run == reduce_run(res.x, buf, len)
        IN  /\ Out = run.s
            /\ LimbsOK(Out)
            /\ RefMod(Out) = RefBytesMod(buf)
            /\ len > 31 =>
                  /\ run.lead \in 1..31
                  /\ (len - run.lead) % 31 = 0
                  /\ Len(run.accs) = (len - run.lead) \div 31 + 1
                  /\ \A k \in 1..Len(run.accs) :
                        RefMod(run.accs[k]) =
                            RefBytesMod(SubSeq(buf, len - run.lead - 31 * (k - 1) + 1, len))

(* C3 witness: an input of more than two 31-byte chunks has been reduced to a
   nonzero scalar. *)
C3_Witness ==
    /\ res.op = "decode_reduce"
    /\ Len(buf) > 62
    /\ Out # zero17

MulPre == Below(X, 127, 100) /\ Below(Y, 127, 100)

(* What C4 says of both scalar_mmul calls apart from overflow: the result is
   congruent to a*b modulo n and below 1.18*n, every quotient digit clears the
   low limb of t + g*N0, and dh is 0 at the end. *)
MulResult(m1, m2) ==
    /\ Out = m2.d
    /\ RefMod(Out) = RefMulMod(X, Y)
    /\ Below(Out, 118, 100)
    /\ m1.dh = 0
    /\ m2.dh = 0
    /\ \A k \in 1..17 : m1.log[k].low = 0 /\ m2.log[k].low = 0

(* The 32-bit intermediates whose value is used keep their value: t,
   t + g*N0 and h stay below 2^31 (the sums are computed exactly), the carry
   cc never exceeds 2^16 and dh is 0 or 1 after every outer iteration. *)
MulInRange(m) ==
    \A k \in 1..17 :
        /\ m.log[k].t >= 0
        /\ m.log[k].ccmax <= 65536
        /\ m.log[k].dh \in {0, 1}

(* C4 as stated: for a, b < 1.27*n, curve9767_scalar_mul (scalar_mmul(a, sR2)
   then scalar_mmul(t, b)) yields a value congruent to a*b modulo n and below
   1.18*n; in each scalar_mmul call every digit g clears the low limb of
   t + g*N0, no 32-bit intermediate overflows, and dh is 0 at the end. *)
C4_Original ==
    (res.op = "mul" /\ MulPre) =>
        LET m1 == mmul_run(X, sR2)
            m2 == mmul_run(m1.d, Y)
        IN  /\ MulResult(m1, m2)
            /\ MulInRange(m1) /\ MulInRange(m2)
            /\ \A k \in 1..17 : ~m1.log[k].wrap /\ ~m2.log[k].wrap

(* C4 amended: as C4, except that the product t * N0I may exceed 32 bits; it
   is reduced modulo 2^32 and only its low 15 bits are kept, so g is the
   digit the exact product gives. *)
C4_Mul ==
    (res.op = "mul" /\ MulPre) =>
        LET m1 == mmul_run(X, sR2)
            m2 == mmul_run(m1.d, Y)
        IN  /\ MulResult(m1, m2)
            /\ MulInRange(m1) /\ MulInRange(m2)
            /\ \A k \in 1..17 :
                  /\ m1.log[k].g = ((m1.log[k].t % 32768) * N0I) % 32768
                  /\ m2.log[k].g = ((m2.log[k].t % 32768) * N0I) % 32768

(* C4 witness: the two largest sampled operands below 1.27*n have been
   multiplied. *)
C4_Witness ==
    /\ res.op = "mul"
    /\ X = FloorOfN(127, 100)
    /\ Y = FloorOfN(127, 100)

(* C5: for a, b < 1.56*n, scalar_add yields a value congruent to a+b modulo n
   and below 2^252 (hence below 1.14*n); the limb-wise sum leaves no carry out
   of limb 16, each of the two conditional subtractions of n is made exactly
   when the current value is 2^252 or more, and neither borrows. *)
C5_Add ==
    (res.op = "add" /\ Below(X, 156, 100) /\ Below(Y, 156, 100)) =>
        LET run == add_run(X, Y)
        IN  /\ Out = run.d
            /\ LimbsOK(Out)
            /\ RefMod(Out) = RefMod(BigAdd(X, Y))
            /\ BigLess(Out, Pow252)
            /\ Below(Out, 114, 100)
            /\ run.sum.cc = 0
            /\ BigEqual(run.sum.d, BigAdd(X, Y))
            /\ add_mask(run.sum.d) = (IF BigLess(run.sum.d, Pow252) THEN 0 ELSE -1)
            /\ add_mask(run.sub1.d) = (IF BigLess(run.sub1.d, Pow252) THEN 0 ELSE -1)
            /\ run.sub1.cc = 0
            /\ run.sub2.cc = 0

(* C5 witness: an addition in which both conditional subtractions took n
   off. *)
C5_Witness ==
    /\ res.op = "add"
    /\ Below(X, 156, 100) /\ Below(Y, 156, 100)
    /\ add_mask(add_run(X, Y).sum.d) = -1
    /\ add_mask(add_run(X, Y).sub1.d) = -1

SubPre == BigLess(X, BigAdd(order, order)) /\ BigLess(Y, BigAdd(order, order))

(* C6 as stated: for a, b < 2*n the output of scalar_sub is nonnegative and
   never greater than a. *)
C6_Original ==
    (res.op = "sub" /\ SubPre) =>
        /\ Out[17] < 16384
        /\ ~BigLess(X, Out)

(* What scalar_sub does for a, b < 2*n: the output is nonnegative and
   congruent to a - b modulo n; it is a - b when a >= b and below n when
   a < b. *)
Sub_Congruent ==
    (res.op = "sub" /\ SubPre) =>
        /\ LimbsOK(Out)
        /\ Out[17] < 16384
        /\ RefMod(BigAdd(Out, Y)) = RefMod(X)
        /\ ~BigLess(X, Y) => (BigEqual(BigAdd(Out, Y), X) /\ ~BigLess(X, Out))
        /\ BigLess(X, Y) => BigLess(Out, order)

(* C7: for x < 2*n, curve9767_scalar_is_zero returns 1 iff x is 0 modulo n
   (x = 0 or x = n), else 0; for a, b < 2*n, curve9767_scalar_eq returns 1
   iff a and b are congruent modulo n, also when their limbs differ, else
   0. *)
C7_ZeroEq ==
    /\ (res.op = "is_zero" /\ BigLess(X, BigAdd(order, order))) =>
          /\ res.r = (IF RefMod(X) = zero17 THEN 1 ELSE 0)
          /\ res.r = 1 <=> X \in {zero17, order}
    /\ (res.op = "eq" /\ SubPre) =>
          res.r = (IF RefMod(X) = RefMod(Y) THEN 1 ELSE 0)

(* C7 witness: two scalars with different limbs have been found equal. *)
C7_Witness ==
    /\ res.op = "eq"
    /\ SubPre
    /\ X # Y
    /\ res.r = 1

(* C9 as stated: for a < 2*n, scalar_normalize returns the complement of the
   borrow of the limb-wise subtraction a - n: 1 when it does not borrow, 0
   when it borrows. *)
C9_Original ==
    (res.op = "normalize" /\ BigLess(X, BigAdd(order, order))) =>
        /\ res.r = 1 - norm_borrow(X).cc
        /\ res.r = (IF BigLess(X, order) THEN 0 ELSE 1)

(* C9 amended: for a < 2*n, scalar_normalize returns the borrow of the
   limb-wise subtraction a - n itself: 1 when it borrows (a was already in
   0..n-1), 0 when it does not; the array written holds a mod n. *)
C9_Normalize ==
    (res.op = "normalize" /\ BigLess(X, BigAdd(order, order))) =>
        /\ res.r = norm_borrow(X).cc
        /\ res.r = (IF BigLess(X, order) THEN 1 ELSE 0)
        /\ Out = RefMod(X)

(* C9 witness: scalar_normalize has returned 0 for a value in n..2n-1. *)
C9_Witness ==
    /\ res.op = "normalize"
    /\ BigLess(X, BigAdd(order, order))
    /\ ~BigLess(X, order)
    /\ res.r = 0

(* C10: from curve9767_scalar_zero, curve9767_scalar_one and decoded
   scalars, after any sequence of add, sub, neg, mul, condcopy (control 0 or
   1), decode_strict and decode_reduce, every scalar has its 17 limbs below
   2^15 and a value below 1.27*n, and the decode_reduce accumulator is below
   1.27*n at every iteration boundary. *)
C10_Chain ==
    /\ \A r \in Regs :
          /\ LimbsOK(Limbs(regs[r]))
          /\ regs[r][18] = 0
          /\ Below(Limbs(regs[r]), 127, 100)
    /\ res.op = "decode_reduce" =>
          \A k \in 1..Len(reduce_run(res.x, buf, Len(buf)).accs) :
              Below(reduce_run(res.x, buf, Len(buf)).accs[k], 127, 100)

(* C10 witness: a second call has written a scalar that is not canonical
   (n or more). *)
C10_Witness ==
    /\ steps = 2
    /\ res.op \in {"add", "sub", "neg", "mul"}
    /\ ~BigLess(Out, order)

=============================================================================
